---- MODULE Spec2Model ----
(***************************************************************************)
(* Budget period engine of Prosper: the Budget model (models/Budget.js),   *)
(* the budget routes (routes/budgets.js) and the transaction routes        *)
(* (second half of routes/users.js), over a store of budgets and           *)
(* transactions of one user.                                               *)
(*                                                                         *)
(* Money is counted in whole units, dates and the clock in whole days.     *)
(* Input domains: budgets of type 'expense', transactions of status        *)
(* 'completed' (the schema defaults).                                      *)
(***************************************************************************)
EXTENDS Integers, Sequences, FiniteSets, TLC

VARIABLES
    budgets,    \* the Budget collection: id -> stored document
    txs,        \* the Transaction collection: id -> stored document (or a tombstone)
    counted,    \* history variable: counted[b][t] = amount of transaction t held in budgets[b].spent
    now,        \* wall clock (new Date()), in days
    last,       \* the response of the last request handled
    nreq,       \* number of requests handled so far
    req         \* per request in flight (concurrent handlers): position and local documents

vars == <<budgets, txs, counted, now, last, nreq, req>>

----------------------------------------------------------------------------
(* Bounds *)

MaxBudgets == 2
MaxTx == 2
MaxTime == 2
MaxRenew == 1
MaxRequests == 3
MaxEdits == 1

BudgetIds == 1..MaxBudgets
TxIds == 1..MaxTx
Categories == {"food", "fun"}
CategoryLists == {<<"food">>, <<"fun">>, <<"food", "fun">>}
DateRanges == {<<0, 1>>, <<2, 3>>, <<0, 3>>, <<1, 1>>}
TxDates == {0, 2}
BudgetAmounts == {1, 200}
TxAmounts == {1, 199}
Statuses == {"active", "paused", "completed", "exceeded"}
BodyStatuses == {"absent", "active", "paused"}
TxTypes == {"income", "expense"}
Procs == {"p1", "p2"}

NoId == 0
NoDate == -1
NoAmount == -1

----------------------------------------------------------------------------
(* Helpers *)

Max(a, b) == IF a >= b THEN a ELSE b
Min(a, b) == IF a <= b THEN a ELSE b

InList(c, list) == \E i \in 1..Len(list) : list[i] = c

RECURSIVE SumOver(_, _)
SumOver(S, f) ==
    IF S = {} THEN 0
    ELSE LET x == CHOOSE y \in S : TRUE IN f[x] + SumOver(S \ {x}, f)

MaxOver(S, f) == CHOOSE m \in {f[x] : x \in S} : \A x \in S : f[x] <= m

----------------------------------------------------------------------------
(* models/Budget.js *)

getPeriodInDays(period) ==
    CASE period = "weekly" -> 7
      [] period = "monthly" -> 30
      [] period = "quarterly" -> 90
      [] period = "yearly" -> 365
      [] OTHER -> 30

\* Math.round(spent / amount * 100), 0 when amount is 0
utilizationPercentage(b) ==
    IF b.amount = 0 THEN 0
    ELSE (200 * b.spent + b.amount) \div (2 * b.amount)

remainingAmount(b) == Max(0, b.amount - b.spent + b.rolloverAmount)

\* a field of a request body, or the given value when the body does not carry it
Field(body, f, default) == IF f \in DOMAIN body THEN body[f] ELSE default

\* schema defaults of a new document built from a request body
NewBudget(body) ==
    [ amount |-> body.amount,
      period |-> body.period,
      startDate |-> body.startDate,
      endDate |-> body.endDate,
      categories |-> body.categories,
      status |-> IF body.status = "absent" THEN "active" ELSE body.status,
      autoRenewEnabled |-> body.autoRenewEnabled,
      adjustAmount |-> Field(body, "adjustAmount", FALSE),
      adjustmentPercentage |-> Field(body, "adjustmentPercentage", 0),
      rolloverEnabled |-> Field(body, "rolloverEnabled", FALSE),
      carryOverUnused |-> Field(body, "carryOverUnused", TRUE),
      maxRolloverAmount |-> Field(body, "maxRolloverAmount", NoAmount),
      spent |-> 0,
      remaining |-> 0,
      transactionCount |-> 0,
      lastTransactionDate |-> NoDate,
      rolloverAmount |-> 0,
      history |-> << >> ]

\* pre('save'): remaining and status are re-derived at time t
PreSaveStatus(b, t) ==
    IF utilizationPercentage(b) >= 100 THEN "exceeded"
    ELSE IF t > b.endDate THEN "completed"
    ELSE IF b.status = "exceeded" /\ utilizationPercentage(b) < 100 THEN "active"
    ELSE b.status

PreSave(b, t) ==
    [b EXCEPT !.remaining = remainingAmount(b),
              !.status = PreSaveStatus(b, t)]

\* schema validators run by save()
ValidBudget(b) == b.amount >= 1 /\ b.spent >= 0

\* methods.addTransaction, up to its save()
AddTransactionDoc(b, amount, t) ==
    LET b1 == [b EXCEPT !.spent = b.spent + amount,
                        !.transactionCount = b.transactionCount + 1,
                        !.lastTransactionDate = t]
    IN [b1 EXCEPT !.remaining = Max(0, b1.amount - b1.spent)]

\* methods.renewForNextPeriod, from the history push to the reset, up to its save()
RenewDoc(b) ==
    LET snapshot == [ budgetAmount |-> b.amount,
                      actualSpent |-> b.spent,
                      variance |-> b.amount - b.spent,
                      variancePercentage |-> ((b.amount - b.spent) * 100) \div b.amount,
                      transactionCount |-> b.transactionCount,
                      startDate |-> b.startDate,
                      endDate |-> b.endDate ]
        newStart == b.endDate + 1
        newEnd == newStart + getPeriodInDays(b.period) - 1
        newAmount == IF b.adjustAmount
                     THEN b.amount + (b.amount * b.adjustmentPercentage) \div 100
                     ELSE b.amount
        unused == Max(0, newAmount - b.spent)
        rollover == IF b.rolloverEnabled /\ b.carryOverUnused
                    THEN (IF b.maxRolloverAmount # NoAmount /\ b.maxRolloverAmount # 0 THEN Min(unused, b.maxRolloverAmount) ELSE unused)
                    ELSE 0
    IN [b EXCEPT !.history = Append(b.history, snapshot),
                 !.startDate = newStart,
                 !.endDate = newEnd,
                 !.amount = newAmount,
                 !.spent = 0,
                 !.remaining = newAmount + rollover,
                 !.transactionCount = 0,
                 !.lastTransactionDate = NoDate,
                 !.rolloverAmount = rollover,
                 !.status = "active"]

----------------------------------------------------------------------------
(* Store queries *)

Live(T) == {t \in DOMAIN T : ~T[t].deleted}

\* the filter of recalculateBudgetSpending and of GET /:id
MatchesBudget(b, tx) ==
    /\ ~tx.deleted
    /\ InList(tx.category, b.categories)
    /\ tx.date >= b.startDate
    /\ tx.date <= b.endDate
    /\ tx.type = "expense"

\* Budget.findOne of the transaction routes: an active budget holding the category
\* whose range holds the date
ActiveBudgetsFor(B, category, date) ==
    {b \in DOMAIN B : /\ InList(category, B[b].categories)
                      /\ B[b].status = "active"
                      /\ B[b].startDate <= date
                      /\ B[b].endDate >= date}

\* the overlappingBudget filter of POST /api/budgets
OverlappingBudgets(B, body) ==
    {b \in DOMAIN B : /\ \E i \in 1..Len(body.categories) : InList(body.categories[i], B[b].categories)
                      /\ B[b].startDate <= body.endDate
                      /\ B[b].endDate >= body.startDate
                      /\ B[b].status \in {"active", "paused"}}

\* transaction.isDuplicate(): another transaction of the same amount within a day
IsDuplicate(T, amount, date) ==
    \E t \in Live(T) : T[t].amount = amount /\ T[t].date >= date - 1 /\ T[t].date <= date + 1

\* recalculateBudgetSpending, up to its save()
RecalcDoc(b, T) ==
    LET M == {t \in DOMAIN T : MatchesBudget(b, T[t])}
    IN [b EXCEPT !.spent = SumOver(M, [t \in M |-> T[t].amount]),
                 !.transactionCount = Cardinality(M),
                 !.lastTransactionDate = IF M = {} THEN NoDate
                                         ELSE MaxOver(M, [t \in M |-> T[t].date])]

RecalcCounted(b, T) == [t \in TxIds |-> IF t \in DOMAIN T /\ MatchesBudget(b, T[t]) THEN T[t].amount ELSE 0]

NoneCounted == [t \in TxIds |-> 0]

Tombstone == [type |-> "expense", amount |-> 0, category |-> "food", date |-> NoDate,
              budgetId |-> NoId, deleted |-> TRUE]

Resp(op, res, bid, tid, seen) == [op |-> op, res |-> res, bid |-> bid, tid |-> tid, seen |-> seen]

Idle == [pc |-> "idle"]

\* one more request is handled
Served == nreq < MaxRequests /\ nreq' = nreq + 1

----------------------------------------------------------------------------
(* Request bodies *)

BudgetBodies ==
    {[amount |-> a, period |-> "weekly", startDate |-> r[1], endDate |-> r[2],
      categories |-> c, status |-> s, autoRenewEnabled |-> e] :
        a \in BudgetAmounts, r \in DateRanges, c \in CategoryLists,
        s \in BodyStatuses, e \in BOOLEAN}

\* the bodies a client posts to create a budget
CreateBodies == {body \in BudgetBodies : body.status = "absent" /\ body.autoRenewEnabled}

\* the number of fields in which a body differs from the stored budget
BudgetEdits(b, body) ==
    (IF body.amount # b.amount THEN 1 ELSE 0)
    + (IF body.startDate # b.startDate \/ body.endDate # b.endDate THEN 1 ELSE 0)
    + (IF body.categories # b.categories THEN 1 ELSE 0)
    + (IF body.status \notin {"absent", b.status} THEN 1 ELSE 0)
    + (IF body.autoRenewEnabled # b.autoRenewEnabled THEN 1 ELSE 0)

\* the bodies of PUT /api/budgets/:id: the stored budget with at most MaxEdits fields edited
UpdateBodies(b) == {body \in BudgetBodies : BudgetEdits(b, body) <= MaxEdits}

TxBodies == [type : TxTypes, amount : TxAmounts, category : Categories, date : TxDates]

TxEdits(tx, body) ==
    (IF body.type # tx.type THEN 1 ELSE 0)
    + (IF body.amount # tx.amount THEN 1 ELSE 0)
    + (IF body.category # tx.category THEN 1 ELSE 0)
    + (IF body.date # tx.date THEN 1 ELSE 0)

\* the bodies of PUT /api/transactions/:id
TxUpdateBodies(tx) == {body \in TxBodies : TxEdits(tx, body) <= MaxEdits}

\* the transactions of a bulk import or of a bank sync
ImportBodies == {body \in TxBodies : body.amount = 1}

NewTransaction(body, t) ==
    [type |-> body.type, amount |-> body.amount, category |-> body.category,
     date |-> body.date,
     budgetId |-> NoId, deleted |-> FALSE]

----------------------------------------------------------------------------
(* routes/budgets.js, each handler run to completion *)

\* POST /api/budgets
CreateBudget(body) ==
    LET id == Cardinality(DOMAIN budgets) + 1
        b0 == PreSave(NewBudget(body), now)
        recalc == body.startDate <= now
        b1 == IF recalc THEN PreSave(RecalcDoc(b0, txs), now) ELSE b0
    IN /\ Served
       /\ id <= MaxBudgets
       /\ IF body.endDate <= body.startDate
          THEN /\ last' = Resp("createBudget", "INVALID_DATE_RANGE", NoId, NoId, "none")
               /\ UNCHANGED <<budgets, counted>>
          ELSE IF OverlappingBudgets(budgets, body) # {}
          THEN /\ last' = Resp("createBudget", "OVERLAPPING_BUDGET", NoId, NoId, "none")
               /\ UNCHANGED <<budgets, counted>>
          ELSE /\ budgets' = budgets @@ (id :> b1)
               /\ counted' = [counted EXCEPT ![id] = IF recalc THEN RecalcCounted(b0, txs) ELSE NoneCounted]
               /\ last' = Resp("createBudget", "ok", id, NoId, "none")
       /\ UNCHANGED <<txs, now, req>>

\* Object.assign(budget, req.body)
AssignBudget(b, body) ==
    [b EXCEPT !.amount = body.amount,
              !.period = body.period,
              !.startDate = body.startDate,
              !.endDate = body.endDate,
              !.categories = body.categories,
              !.status = IF body.status = "absent" THEN b.status ELSE body.status,
              !.autoRenewEnabled = body.autoRenewEnabled,
              !.history = Field(body, "history", b.history)]

\* PUT /api/budgets/:id
UpdateBudget(id, body) ==
    LET old == budgets[id]
        b0 == PreSave(AssignBudget(old, body), now)
        recalc == old.categories # b0.categories \/ old.amount # b0.amount
        b1 == IF recalc THEN PreSave(RecalcDoc(b0, txs), now) ELSE b0
    IN /\ Served
       /\ id \in DOMAIN budgets
       /\ budgets' = [budgets EXCEPT ![id] = b1]
       /\ counted' = IF recalc THEN [counted EXCEPT ![id] = RecalcCounted(b0, txs)] ELSE counted
       /\ last' = Resp("updateBudget", "ok", id, NoId, AssignBudget(old, body).status)
       /\ UNCHANGED <<txs, now, req>>

\* GET /api/budgets/:id
GetBudget(id) ==
    /\ Served
    /\ id \in DOMAIN budgets
    /\ last' = Resp("getBudget", "ok", id, NoId, budgets[id].status)
    /\ UNCHANGED <<budgets, txs, counted, now, req>>

\* renewForNextPeriod alone: only autoRenew.enabled is looked at
RenewRefusalNoStatusCheck(b) ==
    IF ~b.autoRenewEnabled THEN "AUTO_RENEWAL_DISABLED" ELSE "ok"

\* the checks of POST /:id/renew and of renewForNextPeriod, in the order they run
RenewRefusal(b) ==
    IF b.status # "completed" THEN "BUDGET_NOT_COMPLETED"
    ELSE IF ~b.autoRenewEnabled THEN "AUTO_RENEWAL_DISABLED"
    ELSE "ok"

\* POST /api/budgets/:id/renew
RenewBudget(id) ==
    LET b == budgets[id]
    IN /\ Served
       /\ id \in DOMAIN budgets
       /\ IF RenewRefusal(b) # "ok"
          THEN /\ last' = Resp("renew", RenewRefusal(b), id, NoId, b.status)
               /\ UNCHANGED <<budgets, counted>>
          ELSE /\ Len(b.history) < MaxRenew
               /\ budgets' = [budgets EXCEPT ![id] = PreSave(RenewDoc(b), now)]
               /\ counted' = [counted EXCEPT ![id] = NoneCounted]
               /\ last' = Resp("renew", "ok", id, NoId, b.status)
       /\ UNCHANGED <<txs, now, req>>

----------------------------------------------------------------------------
(* Transaction routes (routes/users.js), each handler run to completion *)

\* budget.addTransaction(amount): the document stored by its save()
AddTransaction(b, amount, t) == PreSave(AddTransactionDoc(b, amount, t), t)

\* spent -= amount; transactionCount -= 1, up to the save()
RemoveTransactionDoc(b, amount) ==
    [b EXCEPT !.spent = b.spent - amount,
              !.transactionCount = b.transactionCount - 1]

\* POST /api/transactions
CreateTransaction(body) ==
    LET id == Cardinality(DOMAIN txs) + 1
        tx == NewTransaction(body, now)
        cands == IF tx.type = "expense" THEN ActiveBudgetsFor(budgets, tx.category, tx.date) ELSE {}
    IN /\ Served
       /\ id <= MaxTx
       /\ IF IsDuplicate(txs, tx.amount, tx.date)
          THEN /\ last' = Resp("createTransaction", "DUPLICATE_TRANSACTION", NoId, NoId, "none")
               /\ UNCHANGED <<budgets, txs, counted>>
          ELSE \E b \in (IF cands = {} THEN {NoId} ELSE cands) :
               /\ txs' = txs @@ (id :> [tx EXCEPT !.budgetId = b])
               /\ budgets' = IF b = NoId THEN budgets
                             ELSE [budgets EXCEPT ![b] = AddTransaction(budgets[b], tx.amount, now)]
               /\ counted' = IF b = NoId THEN counted
                             ELSE [counted EXCEPT ![b][id] = @ + tx.amount]
               /\ last' = Resp("createTransaction", "ok", b, id, "none")
       /\ UNCHANGED <<now, req>>

\* Object.assign(transaction, req.body)
AssignTransaction(tx, body) ==
    [tx EXCEPT !.type = body.type,
               !.amount = body.amount,
               !.category = body.category,
               !.date = body.date]

\* PUT /api/transactions/:id
UpdateTransaction(id, body) ==
    LET old == txs[id]
        tx == AssignTransaction(old, body)
        touch == tx.type = "expense" /\ (old.amount # tx.amount \/ old.category # tx.category)
        hasOld == tx.budgetId # NoId /\ tx.budgetId \in DOMAIN budgets
        oldDoc == RemoveTransactionDoc(budgets[tx.budgetId], old.amount)
        \* the old budget's save() fails its validators: the handler ends there
        fails == touch /\ hasOld /\ ~ValidBudget(oldDoc)
        B1 == IF touch /\ hasOld /\ ~fails
              THEN [budgets EXCEPT ![tx.budgetId] = PreSave(oldDoc, now)]
              ELSE budgets
        C1 == IF touch /\ hasOld /\ ~fails
              THEN [counted EXCEPT ![tx.budgetId][id] = @ - old.amount]
              ELSE counted
        cands == IF touch /\ ~fails THEN ActiveBudgetsFor(B1, tx.category, tx.date) ELSE {}
    IN /\ Served
       /\ id \in Live(txs)
       /\ \E b \in (IF cands = {} THEN {NoId} ELSE cands) :
            /\ txs' = [txs EXCEPT ![id] = IF touch /\ ~fails THEN [tx EXCEPT !.budgetId = b] ELSE tx]
            /\ budgets' = IF b = NoId THEN B1
                          ELSE [B1 EXCEPT ![b] = AddTransaction(B1[b], tx.amount, now)]
            /\ counted' = IF b = NoId THEN C1
                          ELSE [C1 EXCEPT ![b][id] = @ + tx.amount]
            /\ last' = Resp("updateTransaction", IF fails THEN "error" ELSE "ok",
                            old.budgetId, id, "none")
       /\ UNCHANGED <<now, req>>

\* DELETE /api/transactions/:id
DeleteTransaction(id) ==
    LET tx == txs[id]
        hasOld == tx.budgetId # NoId /\ tx.type = "expense" /\ tx.budgetId \in DOMAIN budgets
        oldDoc == RemoveTransactionDoc(budgets[tx.budgetId], tx.amount)
        fails == hasOld /\ ~ValidBudget(oldDoc)
    IN /\ Served
       /\ id \in Live(txs)
       /\ IF fails
          THEN /\ last' = Resp("deleteTransaction", "error", tx.budgetId, id, "none")
               /\ UNCHANGED <<budgets, txs, counted>>
          ELSE /\ budgets' = IF hasOld THEN [budgets EXCEPT ![tx.budgetId] = PreSave(oldDoc, now)]
                             ELSE budgets
               /\ counted' = IF hasOld THEN [counted EXCEPT ![tx.budgetId][id] = @ - tx.amount]
                             ELSE counted
               /\ txs' = [txs EXCEPT ![id] = Tombstone]
               /\ last' = Resp("deleteTransaction", "ok", tx.budgetId, id, "none")
       /\ UNCHANGED <<now, req>>

\* POST /api/transactions/bulk: Transaction.insertMany, here of one transaction
BulkCreate(body) ==
    LET id == Cardinality(DOMAIN txs) + 1
    IN /\ Served
       /\ id <= MaxTx
       /\ txs' = txs @@ (id :> NewTransaction(body, now))
       /\ last' = Resp("bulkCreate", "ok", NoId, id, "none")
       /\ UNCHANGED <<budgets, counted, now, req>>

\* POST /api/plaid/sync-transactions: one bank transaction saved
SyncTransaction(body) ==
    LET id == Cardinality(DOMAIN txs) + 1
    IN /\ Served
       /\ id <= MaxTx
       /\ txs' = txs @@ (id :> NewTransaction(body, now))
       /\ last' = Resp("syncTransaction", "ok", NoId, id, "none")
       /\ UNCHANGED <<budgets, counted, now, req>>

\* the clock advances by a day
Tick ==
    /\ now < MaxTime
    /\ now' = now + 1
    /\ UNCHANGED <<budgets, txs, counted, last, nreq, req>>

----------------------------------------------------------------------------
(* The store driven by one request at a time *)

Init ==
    /\ budgets = << >>
    /\ txs = << >>
    /\ counted = [b \in BudgetIds |-> NoneCounted]
    /\ now = 0
    /\ last = Resp("none", "ok", NoId, NoId, "none")
    /\ nreq = 0
    /\ req = [p \in Procs |-> Idle]

Next ==
    \/ \E body \in CreateBodies : CreateBudget(body)
    \/ \E id \in DOMAIN budgets : \E body \in UpdateBodies(budgets[id]) : UpdateBudget(id, body)
    \/ \E id \in BudgetIds : GetBudget(id)
    \/ \E id \in BudgetIds : RenewBudget(id)
    \/ \E body \in TxBodies : CreateTransaction(body)
    \/ \E id \in Live(txs) : \E body \in TxUpdateBodies(txs[id]) : UpdateTransaction(id, body)
    \/ \E id \in TxIds : DeleteTransaction(id)
    \/ \E body \in ImportBodies : BulkCreate(body)
    \/ \E body \in ImportBodies : SyncTransaction(body)
    \/ Tick

Spec == Init /\ [][Next]_vars

----------------------------------------------------------------------------
(* The same handlers interleaved: one step per awaited store operation.    *)
(* A document's save() writes the paths modified since it was loaded.      *)

\* document.save() of a loaded document: $set of the modified paths
SaveModified(stored, loaded, doc) ==
    [f \in DOMAIN stored |-> IF doc[f] # loaded[f] THEN doc[f] ELSE stored[f]]

ConcTxBodies == {body \in TxBodies : body.type = "expense"}
ConcBudgetBodies == {body \in CreateBodies : body.amount = 200}

Done(kind, res) == [pc |-> "done", kind |-> kind, res |-> res]

\* POST /api/transactions arrives
ctStart(p, body) ==
    /\ req[p].pc = "idle"
    /\ req' = [req EXCEPT ![p] = [pc |-> "ctIsDuplicate", tx |-> NewTransaction(body, now)]]
    /\ UNCHANGED <<budgets, txs, counted, now, last, nreq>>

\* await transaction.isDuplicate()
ctIsDuplicate(p) ==
    /\ req[p].pc = "ctIsDuplicate"
    /\ req' = [req EXCEPT ![p] = IF IsDuplicate(txs, req[p].tx.amount, req[p].tx.date)
                                 THEN Done("createTransaction", "DUPLICATE_TRANSACTION")
                                 ELSE [@ EXCEPT !.pc = "ctSave"]]
    /\ UNCHANGED <<budgets, txs, counted, now, last, nreq>>

\* await transaction.save()
ctSave(p) ==
    LET id == Cardinality(DOMAIN txs) + 1
    IN /\ req[p].pc = "ctSave"
       /\ id <= MaxTx
       /\ txs' = txs @@ (id :> req[p].tx)
       /\ req' = [req EXCEPT ![p] = [pc |-> "ctFindBudget", tx |-> req[p].tx, tid |-> id]]
       /\ UNCHANGED <<budgets, counted, now, last, nreq>>

\* await Budget.findOne(...): the budget document is loaded
ctFindBudget(p) ==
    LET tx == req[p].tx
        cands == IF tx.type = "expense" THEN ActiveBudgetsFor(budgets, tx.category, tx.date) ELSE {}
    IN /\ req[p].pc = "ctFindBudget"
       /\ \E b \in (IF cands = {} THEN {NoId} ELSE cands) :
            req' = [req EXCEPT ![p] = IF b = NoId THEN Done("createTransaction", "ok")
                                      ELSE [pc |-> "ctAddTransaction", tx |-> tx, tid |-> req[p].tid,
                                            bid |-> b, loaded |-> budgets[b], cnt |-> counted[b]]]
       /\ UNCHANGED <<budgets, txs, counted, now, last, nreq>>

\* await budget.addTransaction(transaction.amount)
ctAddTransaction(p) ==
    LET r == req[p]
        doc == AddTransaction(r.loaded, r.tx.amount, now)
    IN /\ r.pc = "ctAddTransaction"
       /\ budgets' = [budgets EXCEPT ![r.bid] = SaveModified(@, r.loaded, doc)]
       /\ counted' = [counted EXCEPT ![r.bid] = [r.cnt EXCEPT ![r.tid] = @ + r.tx.amount]]
       /\ req' = [req EXCEPT ![p] = [pc |-> "ctSetBudgetId", tid |-> r.tid, bid |-> r.bid]]
       /\ UNCHANGED <<txs, now, last, nreq>>

\* transaction.budgetId = budget._id; await transaction.save()
ctSetBudgetId(p) ==
    /\ req[p].pc = "ctSetBudgetId"
    /\ txs' = [txs EXCEPT ![req[p].tid].budgetId = req[p].bid]
    /\ req' = [req EXCEPT ![p] = Done("createTransaction", "ok")]
    /\ UNCHANGED <<budgets, counted, now, last, nreq>>

\* POST /api/budgets arrives: the date range is validated
cbStart(p, body) ==
    /\ req[p].pc = "idle"
    /\ req' = [req EXCEPT ![p] = IF body.endDate <= body.startDate
                                 THEN Done("createBudget", "INVALID_DATE_RANGE")
                                 ELSE [pc |-> "cbFindOverlap", body |-> body]]
    /\ UNCHANGED <<budgets, txs, counted, now, last, nreq>>

\* await Budget.findOne(overlapping)
cbFindOverlap(p) ==
    /\ req[p].pc = "cbFindOverlap"
    /\ req' = [req EXCEPT ![p] = IF OverlappingBudgets(budgets, req[p].body) # {}
                                 THEN Done("createBudget", "OVERLAPPING_BUDGET")
                                 ELSE [@ EXCEPT !.pc = "cbSave"]]
    /\ UNCHANGED <<budgets, txs, counted, now, last, nreq>>

\* await budget.save() of the new document
cbSave(p) ==
    LET id == Cardinality(DOMAIN budgets) + 1
        b0 == PreSave(NewBudget(req[p].body), now)
    IN /\ req[p].pc = "cbSave"
       /\ id <= MaxBudgets
       /\ budgets' = budgets @@ (id :> b0)
       /\ counted' = [counted EXCEPT ![id] = NoneCounted]
       /\ req' = [req EXCEPT ![p] = IF req[p].body.startDate <= now
                                    THEN [pc |-> "cbRecalcFind", bid |-> id, loaded |-> b0]
                                    ELSE Done("createBudget", "ok")]
       /\ UNCHANGED <<txs, now, last, nreq>>

\* recalculateBudgetSpending: await Transaction.find(...)
cbRecalcFind(p) ==
    LET r == req[p]
    IN /\ r.pc = "cbRecalcFind"
       /\ req' = [req EXCEPT ![p] = [pc |-> "cbRecalcSave", bid |-> r.bid, loaded |-> r.loaded,
                                     doc |-> RecalcDoc(r.loaded, txs),
                                     cnt |-> RecalcCounted(r.loaded, txs)]]
       /\ UNCHANGED <<budgets, txs, counted, now, last, nreq>>

\* recalculateBudgetSpending: await budget.save()
cbRecalcSave(p) ==
    LET r == req[p]
    IN /\ r.pc = "cbRecalcSave"
       /\ budgets' = [budgets EXCEPT ![r.bid] = SaveModified(@, r.loaded, PreSave(r.doc, now))]
       /\ counted' = IF r.doc.spent # r.loaded.spent THEN [counted EXCEPT ![r.bid] = r.cnt] ELSE counted
       /\ req' = [req EXCEPT ![p] = Done("createBudget", "ok")]
       /\ UNCHANGED <<txs, now, last, nreq>>

\* the store after one budget was created, or the empty store
InitConc ==
    /\ \E body \in ConcBudgetBodies :
         \/ budgets = << >>
         \/ body.endDate > body.startDate /\ budgets = <<PreSave(NewBudget(body), 0)>>
    /\ txs = << >>
    /\ counted = [b \in BudgetIds |-> NoneCounted]
    /\ now = 0
    /\ last = Resp("none", "ok", NoId, NoId, "none")
    /\ nreq = 0
    /\ req = [p \in Procs |-> Idle]

NextConc ==
    \E p \in Procs :
        \/ \E body \in ConcTxBodies : ctStart(p, body)
        \/ ctIsDuplicate(p)
        \/ ctSave(p)
        \/ ctFindBudget(p)
        \/ ctAddTransaction(p)
        \/ ctSetBudgetId(p)
        \/ \E body \in ConcBudgetBodies : cbStart(p, body)
        \/ cbFindOverlap(p)
        \/ cbSave(p)
        \/ cbRecalcFind(p)
        \/ cbRecalcSave(p)

SpecConc == InitConc /\ [][NextConc]_vars

----------------------------------------------------------------------------
(* Renewal of one budget: the store holds one budget created with renewal   *)
(* and rollover settings, charged with one transaction and last saved on    *)
(* day `now`; requests renew it, update it or let the clock advance.        *)

Periods == {"weekly", "monthly", "quarterly", "yearly"}
RenewAmounts == {100, 200}
RenewSpent == {0, 50, 150}
RenewRanges == {<<0, 1>>, <<0, 6>>}
RenewDays == {0, 7}
Percentages == {-50, 50}
RolloverLimits == {NoAmount, 0, 30}

\* POST /api/budgets bodies carrying autoRenew and rollover settings
RenewCreateBodies ==
    {[amount |-> a, period |-> p, startDate |-> r[1], endDate |-> r[2],
      categories |-> <<"food">>, status |-> "absent", autoRenewEnabled |-> e,
      adjustAmount |-> adj, adjustmentPercentage |-> pct,
      rolloverEnabled |-> re, carryOverUnused |-> co, maxRolloverAmount |-> lim] :
        a \in RenewAmounts, p \in Periods, r \in RenewRanges, e \in BOOLEAN,
        adj \in BOOLEAN, pct \in Percentages, re \in BOOLEAN, co \in BOOLEAN,
        lim \in RolloverLimits}

\* the body a client sends back for a stored budget
BodyOf(b) ==
    [amount |-> b.amount, period |-> b.period, startDate |-> b.startDate, endDate |-> b.endDate,
     categories |-> b.categories, status |-> "absent", autoRenewEnabled |-> b.autoRenewEnabled]

\* PUT /api/budgets/:id bodies: the stored fields, with or without a history array
HistoryBodies(b) == {BodyOf(b), BodyOf(b) @@ [history |-> << >>]}

InitRenew ==
    \E body \in RenewCreateBodies, s \in RenewSpent, t \in RenewDays :
        LET b0 == NewBudget(body)
            b1 == IF s > 0 THEN AddTransactionDoc(b0, s, 0) ELSE b0
            tx == [NewTransaction([type |-> "expense", amount |-> s, category |-> "food", date |-> 0], 0)
                       EXCEPT !.budgetId = 1]
        IN /\ budgets = <<PreSave(b1, t)>>
           /\ txs = IF s > 0 THEN <<tx>> ELSE << >>
           /\ counted = [b \in BudgetIds |-> [u \in TxIds |-> IF b = 1 /\ u = 1 THEN s ELSE 0]]
           /\ now = t
           /\ last = Resp("none", "ok", NoId, NoId, "none")
           /\ nreq = 0
           /\ req = [p \in Procs |-> Idle]

NextRenew ==
    \/ \E id \in DOMAIN budgets : RenewBudget(id)
    \/ \E id \in DOMAIN budgets : \E body \in HistoryBodies(budgets[id]) : UpdateBudget(id, body)
    \/ \E id \in DOMAIN budgets : GetBudget(id)

SpecRenew == InitRenew /\ [][NextRenew]_vars

----------------------------------------------------------------------------
(* Two users: every document carries its userId, every request is made by   *)
(* an authenticated user (req.user.id), and request bodies may carry the    *)
(* keys userId and budgetId next to the validated ones.                     *)

Users == {"u1", "u2"}

\* the documents of a collection that a query with { userId } sees
OfUser(D, u) == [i \in {j \in DOMAIN D : D[j].userId = u} |-> D[i]]

OwnRequest(op, res, u) == Resp(op, res, NoId, NoId, "none") @@ [user |-> u]

\* PUT /api/budgets/:id bodies: the stored fields, with or without a userId key
OwnBudgetBodies(b) ==
    {BodyOf(b)} \cup {BodyOf(b) @@ [userId |-> u] : u \in Users}
    \cup {[BodyOf(b) EXCEPT !.amount = a] : a \in BudgetAmounts}

\* transaction bodies, with or without a budgetId key
OwnTxBase == {body \in ImportBodies : body.date = 0}
OwnTxBodies == OwnTxBase \cup {body @@ [budgetId |-> b] : body \in OwnTxBase, b \in BudgetIds}

\* PUT /api/budgets/:id as user u
ownUpdateBudget(u, id, body) ==
    LET old == budgets[id]
        b0 == PreSave([AssignBudget(old, body) EXCEPT !.userId = Field(body, "userId", old.userId)], now)
        recalc == old.categories # b0.categories \/ old.amount # b0.amount
        b1 == IF recalc THEN PreSave(RecalcDoc(b0, OfUser(txs, b0.userId)), now) ELSE b0
    IN /\ Served
       /\ id \in DOMAIN budgets
       /\ IF old.userId # u
          THEN /\ last' = OwnRequest("updateBudget", "BUDGET_NOT_FOUND", u)
               /\ UNCHANGED <<budgets, counted>>
          ELSE /\ budgets' = [budgets EXCEPT ![id] = b1]
               /\ counted' = IF recalc
                             THEN [counted EXCEPT ![id] = RecalcCounted(b0, [t \in DOMAIN txs |->
                                       IF txs[t].userId = b0.userId THEN txs[t] ELSE Tombstone])]
                             ELSE counted
               /\ last' = OwnRequest("updateBudget", "ok", u)
       /\ UNCHANGED <<txs, now, req>>

\* POST /api/transactions as user u
ownCreateTransaction(u, body) ==
    LET id == Cardinality(DOMAIN txs) + 1
        tx == [NewTransaction(body, now) EXCEPT !.budgetId = Field(body, "budgetId", NoId)] @@ [userId |-> u]
        cands == IF tx.type = "expense"
                 THEN ActiveBudgetsFor(OfUser(budgets, u), tx.category, tx.date) ELSE {}
    IN /\ Served
       /\ id <= MaxTx
       /\ IF IsDuplicate(OfUser(txs, u), tx.amount, tx.date)
          THEN /\ last' = OwnRequest("createTransaction", "DUPLICATE_TRANSACTION", u)
               /\ UNCHANGED <<budgets, txs, counted>>
          ELSE \E b \in (IF cands = {} THEN {NoId} ELSE cands) :
               /\ txs' = txs @@ (id :> (IF b = NoId THEN tx ELSE [tx EXCEPT !.budgetId = b]))
               /\ budgets' = IF b = NoId THEN budgets
                             ELSE [budgets EXCEPT ![b] = AddTransaction(budgets[b], tx.amount, now)]
               /\ counted' = IF b = NoId THEN counted
                             ELSE [counted EXCEPT ![b][id] = @ + tx.amount]
               /\ last' = OwnRequest("createTransaction", "ok", u)
       /\ UNCHANGED <<now, req>>

\* PUT /api/transactions/:id as user u
ownUpdateTransaction(u, id, body) ==
    LET old == txs[id]
        tx == [AssignTransaction(old, body) EXCEPT !.budgetId = Field(body, "budgetId", old.budgetId)]
        touch == tx.type = "expense" /\ (old.amount # tx.amount \/ old.category # tx.category)
        hasOld == tx.budgetId # NoId /\ tx.budgetId \in DOMAIN budgets
        oldDoc == RemoveTransactionDoc(budgets[tx.budgetId], old.amount)
        fails == touch /\ hasOld /\ ~ValidBudget(oldDoc)
        B1 == IF touch /\ hasOld /\ ~fails
              THEN [budgets EXCEPT ![tx.budgetId] = PreSave(oldDoc, now)]
              ELSE budgets
        C1 == IF touch /\ hasOld /\ ~fails
              THEN [counted EXCEPT ![tx.budgetId][id] = Max(0, @ - old.amount)]
              ELSE counted
        cands == IF touch /\ ~fails THEN ActiveBudgetsFor(OfUser(B1, u), tx.category, tx.date) ELSE {}
    IN /\ Served
       /\ id \in Live(txs)
       /\ IF old.userId # u
          THEN /\ last' = OwnRequest("updateTransaction", "TRANSACTION_NOT_FOUND", u)
               /\ UNCHANGED <<budgets, txs, counted>>
          ELSE \E b \in (IF cands = {} THEN {NoId} ELSE cands) :
               /\ txs' = [txs EXCEPT ![id] = IF touch /\ ~fails THEN [tx EXCEPT !.budgetId = b] ELSE tx]
               /\ budgets' = IF b = NoId THEN B1
                             ELSE [B1 EXCEPT ![b] = AddTransaction(B1[b], tx.amount, now)]
               /\ counted' = IF b = NoId THEN C1
                             ELSE [C1 EXCEPT ![b][id] = @ + tx.amount]
               /\ last' = OwnRequest("updateTransaction", IF fails THEN "error" ELSE "ok", u)
       /\ UNCHANGED <<now, req>>

\* DELETE /api/transactions/:id as user u
ownDeleteTransaction(u, id) ==
    LET tx == txs[id]
        hasOld == tx.budgetId # NoId /\ tx.type = "expense" /\ tx.budgetId \in DOMAIN budgets
        oldDoc == RemoveTransactionDoc(budgets[tx.budgetId], tx.amount)
        fails == hasOld /\ ~ValidBudget(oldDoc)
    IN /\ Served
       /\ id \in Live(txs)
       /\ IF tx.userId # u
          THEN /\ last' = OwnRequest("deleteTransaction", "TRANSACTION_NOT_FOUND", u)
               /\ UNCHANGED <<budgets, txs, counted>>
          ELSE IF fails
          THEN /\ last' = OwnRequest("deleteTransaction", "error", u)
               /\ UNCHANGED <<budgets, txs, counted>>
          ELSE /\ budgets' = IF hasOld THEN [budgets EXCEPT ![tx.budgetId] = PreSave(oldDoc, now)]
                             ELSE budgets
               /\ counted' = IF hasOld THEN [counted EXCEPT ![tx.budgetId][id] = Max(0, @ - tx.amount)]
                             ELSE counted
               /\ txs' = [txs EXCEPT ![id] = Tombstone @@ [userId |-> u]]
               /\ last' = OwnRequest("deleteTransaction", "ok", u)
       /\ UNCHANGED <<now, req>>

\* one budget per user, created by its owner; the budget of u2 is charged with a transaction of u2
InitOwn ==
    \E c1, c2 \in CategoryLists, a1, a2 \in {200} :
        LET new(c, a) == NewBudget([amount |-> a, period |-> "monthly", startDate |-> 0, endDate |-> 3,
                                    categories |-> c, status |-> "absent", autoRenewEnabled |-> TRUE])
            own(u, c, a) == PreSave(new(c, a), 0) @@ [userId |-> u]
            mk(u, c, a) == PreSave(AddTransactionDoc(new(c, a), 1, 0), 0) @@ [userId |-> u]
            tx(u, c, b) == [NewTransaction([type |-> "expense", amount |-> 1, category |-> c[1], date |-> 0], 0)
                               EXCEPT !.budgetId = b] @@ [userId |-> u]
        IN /\ budgets = <<own("u1", c1, a1), mk("u2", c2, a2)>>
           /\ txs = <<tx("u2", c2, 2)>>
           /\ counted = [b \in BudgetIds |-> [t \in TxIds |-> IF b = 2 /\ t = 1 THEN 1 ELSE 0]]
           /\ now = 2
           /\ last = OwnRequest("none", "ok", "u1")
           /\ nreq = 0
           /\ req = [p \in Procs |-> Idle]

NextOwn ==
    \E u \in Users :
        \/ \E id \in DOMAIN budgets : \E body \in OwnBudgetBodies(budgets[id]) : ownUpdateBudget(u, id, body)
        \/ \E body \in OwnTxBodies : ownCreateTransaction(u, body)
        \/ \E id \in Live(txs) : \E body \in OwnTxBodies : ownUpdateTransaction(u, id, body)
        \/ \E id \in Live(txs) : ownDeleteTransaction(u, id)

SpecOwn == InitOwn /\ [][NextOwn]_vars

----------------------------------------------------------------------------
(* Alerts: needsAlert of the Budget model and getBudgetAlert of the summary *)
(* route, applied to one stored budget with alert thresholds.               *)

AlertSpent == {0, 100, 149, 150, 179, 180, 200}
WarningPercentages == {50, 75}
CriticalPercentages == {90, 100}

\* methods.needsAlert: the level of the alert, on the rounded utilization
needsAlert(b) ==
    IF b.criticalEnabled /\ utilizationPercentage(b) >= b.criticalPercentage THEN "critical"
    ELSE IF b.warningEnabled /\ utilizationPercentage(b) >= b.warningPercentage THEN "warning"
    ELSE "none"

\* getBudgetAlert(budget, spent / amount * 100) of GET /api/budgets/summary
getBudgetAlert(b) ==
    IF b.criticalEnabled /\ b.amount > 0 /\ b.spent * 100 >= b.criticalPercentage * b.amount THEN "critical"
    ELSE IF b.warningEnabled /\ b.amount > 0 /\ b.spent * 100 >= b.warningPercentage * b.amount THEN "warning"
    ELSE "none"

\* budget.needsAlert() on a loaded budget
NeedsAlert(id) ==
    /\ Served
    /\ id \in DOMAIN budgets
    /\ last' = Resp("needsAlert", needsAlert(budgets[id]), id, NoId, budgets[id].status)
    /\ UNCHANGED <<budgets, txs, counted, now, req>>

\* GET /api/budgets/summary: budgetsNeedingAttention
GetSummary(id) ==
    /\ Served
    /\ id \in DOMAIN budgets
    /\ budgets[id].status \in {"active", "exceeded"}
    /\ last' = Resp("summary", getBudgetAlert(budgets[id]), id, NoId, budgets[id].status)
    /\ UNCHANGED <<budgets, txs, counted, now, req>>

InitAlert ==
    \E s \in AlertSpent, w \in WarningPercentages, c \in CriticalPercentages, we, ce \in BOOLEAN :
        LET b0 == NewBudget([amount |-> 200, period |-> "monthly", startDate |-> 0, endDate |-> 3,
                             categories |-> <<"food">>, status |-> "absent", autoRenewEnabled |-> TRUE])
                  @@ [warningPercentage |-> w, warningEnabled |-> we,
                      criticalPercentage |-> c, criticalEnabled |-> ce]
            b1 == IF s > 0 THEN AddTransactionDoc(b0, s, 0) ELSE b0
            tx == [NewTransaction([type |-> "expense", amount |-> s, category |-> "food", date |-> 0], 0)
                       EXCEPT !.budgetId = 1]
        IN /\ budgets = <<PreSave(b1, 0)>>
           /\ txs = IF s > 0 THEN <<tx>> ELSE << >>
           /\ counted = [b \in BudgetIds |-> [u \in TxIds |-> IF b = 1 /\ u = 1 THEN s ELSE 0]]
           /\ now = 0
           /\ last = Resp("none", "ok", NoId, NoId, "none")
           /\ nreq = 0
           /\ req = [p \in Procs |-> Idle]

NextAlert ==
    \/ \E id \in DOMAIN budgets : NeedsAlert(id)
    \/ \E id \in DOMAIN budgets : GetSummary(id)

SpecAlert == InitAlert /\ [][NextAlert]_vars

----------------------------------------------------------------------------
(* Forecast routes (routes/forecasts.js): read-only requests over the       *)
(* user's stored transactions. The store holds income transactions of this  *)
(* month, expense transactions of last month and transactions older than a  *)
(* year.                                                                    *)

MaxHistory == 6
MaxOld == 2
MaxCompoundMonths == 3
MinTransactions == 10
DaysPerYear == 365
DaysPerQuarter == 90
DaysPerMonth == 30
HistoryAmount == 4

Methods == {"absent", "simple", "weighted", "seasonal"}
Horizons == {1, 6}

RECURSIVE Pow(_, _)
Pow(x, n) == IF n = 0 THEN 1 ELSE x * Pow(x, n - 1)

\* Transaction.find({ userId, date: { $gte: since }, status: 'completed' })
FindSince(T, since) == {t \in Live(T) : T[t].date >= since}

\* Dates are whole days counted from 1 January of year 0, in years of 365 days.
MonthLengths == <<31, 28, 31, 30, 31, 30, 31, 31, 30, 31, 30, 31>>

RECURSIVE DaysBefore(_)
\* the days of a year that precede its month m (0 = January)
DaysBefore(m) == IF m = 0 THEN 0 ELSE DaysBefore(m - 1) + MonthLengths[m]

MonthStarts == [m \in 0..11 |-> DaysBefore(m)]

\* the month (0 = January) of each day of a year
MonthOfDay == [d \in 0..(DaysPerYear - 1) |-> CHOOSE m \in 0..11 : MonthStarts[m] <= d /\ d < MonthStarts[m] + MonthLengths[m + 1]]

getFullYear(date) == date \div DaysPerYear

\* Date.prototype.getMonth: 0 = January
getMonth(date) == MonthOfDay[date % DaysPerYear]

\* Date.prototype.getDate: the day of the month
getDate(date) == (date % DaysPerYear) - MonthStarts[getMonth(date)] + 1

\* new Date(year, month, day): a month outside 0..11 and a day past the end of
\* its month carry over
MakeDate(year, month, day) ==
    LET y == year + (month \div 12)
    IN y * DaysPerYear + MonthStarts[month % 12] + day - 1

\* Date.prototype.setMonth(month): the year and the day of the month are kept
setMonth(date, month) == MakeDate(getFullYear(date), month, getDate(date))

\* toISOString().substring(0, 7), the year-month key of a date, as a month count
MonthOf(date) == getFullYear(date) * 12 + getMonth(date)

\* the documents of the ids S, in the order the store returns them
RECURSIVE Docs(_, _)
Docs(T, S) ==
    IF S = {} THEN << >>
    ELSE LET t == CHOOSE x \in S : \A y \in S : x <= y
         IN <<T[t]>> \o Docs(T, S \ {t})

\* the forEach of groupTransactionsByMonth: a bucket is opened by the first
\* transaction of its month; anything that is not income counts as expenses
RECURSIVE AddToBuckets(_, _)
AddToBuckets(transactions, monthlyData) ==
    IF transactions = << >> THEN monthlyData
    ELSE LET transaction == Head(transactions)
             monthKey == MonthOf(transaction.date)
             opened == IF \E i \in DOMAIN monthlyData : monthlyData[i].month = monthKey
                       THEN monthlyData
                       ELSE Append(monthlyData, [month |-> monthKey, income |-> 0, expenses |-> 0, net |-> 0])
             add(data) ==
                 LET income == IF transaction.type = "income" THEN data.income + transaction.amount ELSE data.income
                     expenses == IF transaction.type = "income" THEN data.expenses ELSE data.expenses + transaction.amount
                 IN [month |-> monthKey, income |-> income, expenses |-> expenses, net |-> income - expenses]
         IN AddToBuckets(Tail(transactions),
                         [i \in DOMAIN opened |-> IF opened[i].month = monthKey THEN add(opened[i]) ELSE opened[i]])

\* Array.prototype.sort by month key (insertion into a sorted prefix)
RECURSIVE SortByMonth(_)
SortByMonth(entries) ==
    IF entries = << >> THEN << >>
    ELSE LET rest == SortByMonth(Tail(entries))
             e == Head(entries)
             before == SelectSeq(rest, LAMBDA x : x.month < e.month)
             after == SelectSeq(rest, LAMBDA x : x.month >= e.month)
         IN before \o <<e>> \o after

groupUnsorted(transactions) == AddToBuckets(transactions, << >>)

\* groupTransactionsByMonth(transactions): the buckets in ascending month order
groupTransactionsByMonth(transactions) == SortByMonth(AddToBuckets(transactions, << >>))

RECURSIVE Gcd(_, _)
Gcd(a, b) == IF b = 0 THEN a ELSE Gcd(b, a % b)

\* Amounts are exact fractions num / den, den > 0.
Frac(num, den) ==
    LET g == Gcd(IF num < 0 THEN -num ELSE num, den)
    IN [num |-> num \div g, den |-> den \div g]

Times(x, y) == Frac(x.num * y.num, x.den * y.den)
Minus(x, y) == Frac(x.num * y.den - y.num * x.den, x.den * y.den)
One == Frac(1, 1)

\* x / y for y > 0
Over(x, y) == Frac(x.num * y.den, x.den * y.num)

\* Math.round(x * 100) / 100, in hundredths
Round2(x) == (200 * x.num + x.den) \div (2 * x.den)

Plus(x, y) == Frac(x.num * y.den + y.num * x.den, x.den * y.den)

\* reduce((sum, v) => sum + v, 0) over a sequence of whole numbers
RECURSIVE SumSeq(_)
SumSeq(seq) == IF seq = << >> THEN 0 ELSE Head(seq) + SumSeq(Tail(seq))

\* the same over fractions
RECURSIVE SumFrac(_)
SumFrac(seq) == IF seq = << >> THEN Frac(0, 1) ELSE Plus(Head(seq), SumFrac(Tail(seq)))

Incomes(monthlyData) == [i \in DOMAIN monthlyData |-> monthlyData[i].income]
AllExpenses(monthlyData) == [i \in DOMAIN monthlyData |-> monthlyData[i].expenses]

\* what a strategy hands back: its forecast array, or the error it threw
Returned(forecast) == [res |-> "ok", forecast |-> forecast]
Thrown == [res |-> "INTERNAL_SERVER_ERROR", forecast |-> << >>]

\* monthlyData.slice(-6)
RecentMonths(monthlyData) ==
    SubSeq(monthlyData, Max(1, Len(monthlyData) - 5), Len(monthlyData))

\* generateSimpleMovingAverageForecast: the averages are avgIncome and
\* avgExpenses, the loop body reads weightedIncome and weightedExpenses, which
\* are not defined anywhere (ReferenceError on the first month)
generateSimpleMovingAverageForecast(monthlyData, months, today) ==
    IF months >= 1 THEN Thrown ELSE Returned(<< >>)

\* calculateSeasonalFactors: per calendar month the mean of its buckets, divided
\* by the sum of the twelve means / 12
calculateSeasonalFactors(monthlyData) ==
    LET of(i) == SelectSeq(monthlyData, LAMBDA data : data.month % 12 = i)
        average(values) == IF values = << >> THEN Frac(0, 1) ELSE Frac(SumSeq(values), Len(values))
        factors(monthlyAverages) ==
            LET overall == Times(SumFrac(monthlyAverages), Frac(1, 12))
            IN [i \in 0..11 |-> IF overall.num > 0 THEN Over(monthlyAverages[i + 1], overall) ELSE One]
    IN [income |-> factors([i \in 1..12 |-> average(Incomes(of(i - 1)))]),
        expenses |-> factors([i \in 1..12 |-> average(AllExpenses(of(i - 1)))])]

\* x || 1
OrOne(x) == IF x.num = 0 THEN One ELSE x

\* generateSeasonalForecast
generateSeasonalForecast(monthlyData, months, today) ==
    LET seasonalFactors == calculateSeasonalFactors(monthlyData)
        baselineIncome == Frac(SumSeq(Incomes(monthlyData)), Len(monthlyData))
        baselineExpenses == Frac(SumSeq(AllExpenses(monthlyData)), Len(monthlyData))
        point(i) ==
            LET forecastDate == setMonth(today, getMonth(today) + i)
                monthIndex == getMonth(forecastDate)
                seasonalIncome == Times(baselineIncome, OrOne(seasonalFactors.income[monthIndex]))
                seasonalExpenses == Times(baselineExpenses, OrOne(seasonalFactors.expenses[monthIndex]))
            IN [month |-> MonthOf(forecastDate),
                income |-> Round2(seasonalIncome),
                expenses |-> Round2(seasonalExpenses),
                net |-> Round2(Minus(seasonalIncome, seasonalExpenses)),
                seasonalFactor |-> [income |-> seasonalFactors.income[monthIndex],
                                    expenses |-> seasonalFactors.expenses[monthIndex]]]
    IN Returned([i \in 1..months |-> point(i)])

\* the strategy switch of GET /income-expense: generateWeightedMovingAverageForecast
\* is not defined anywhere (ReferenceError); no method means simple
GenerateForecast(method, monthlyData, months, today) ==
    CASE method = "weighted" -> Thrown
      [] method = "seasonal" -> generateSeasonalForecast(monthlyData, months, today)
      [] OTHER -> generateSimpleMovingAverageForecast(monthlyData, months, today)

\* the strategy of GET /income-expense over the transactions found
RunStrategy(method, months) ==
    LET monthlyData == groupTransactionsByMonth(Docs(txs, FindSince(txs, now - DaysPerYear)))
        run == GenerateForecast(method, monthlyData, months, now)
    IN [res |-> run.res, points |-> Len(run.forecast), forecast |-> run.forecast,
        historicalData |-> IF run.res = "ok" THEN monthlyData ELSE << >>]

InsufficientDataBelow9(n) == n < MinTransactions - 1

\* transactions.length < 10
InsufficientData(n) == n < MinTransactions

\* GET /api/forecasts/income-expense
IncomeExpenseForecast(method, months) ==
    LET transactions == FindSince(txs, now - DaysPerYear)
        run == RunStrategy(method, months)
        answer == IF InsufficientData(Cardinality(transactions))
                  THEN [res |-> "INSUFFICIENT_DATA", points |-> 0, forecast |-> << >>, historicalData |-> << >>]
                  ELSE run
    IN /\ Served
       /\ last' = Resp("forecast", answer.res, NoId, NoId, "none")
                   @@ [method |-> method, months |-> months, points |-> answer.points,
                       forecast |-> answer.forecast, historicalData |-> answer.historicalData]
       /\ UNCHANGED <<budgets, txs, counted, now, req>>

\* query strings of GET /savings-goals, with or without monthlyContribution
SavingsQueries ==
    LET base == [goalAmount : {12}, currentAmount : {0, 12}, interestRate : {0, 50}]
    IN base \cup {q @@ [monthlyContribution |-> c] : q \in base, c \in {-1, 0, 5}}

Number(v) == [kind |-> "number", value |-> v]
NaN == [kind |-> "NaN", value |-> 0]
Infinity == [kind |-> "Infinity", value |-> 0]
\* an error response carries no timeToGoal
NoTimeToGoal == [kind |-> "absent", value |-> 0]

\* calculateHistoricalSavingsRate(userId).averageMonthlySavings: the mean net of
\* the buckets of the last three months (whole for the stored histories), at least 0
averageMonthlySavings(T, t) ==
    LET monthlyData == groupTransactionsByMonth(Docs(T, FindSince(T, t - DaysPerQuarter)))
        months == DOMAIN monthlyData
        sum == SumOver(months, [m \in months |-> monthlyData[m].net])
    IN IF months = {} THEN NaN
       ELSE Number(Max(0, IF sum <= 0 THEN sum ELSE sum \div Cardinality(months)))

\* n = ln(1 + remaining r / c) / ln(1 + r) rounded up, r = rate / 1200: the least
\* n with (1 + r)^n >= 1 + remaining r / c
CompoundReached(remaining, c, rate, n) ==
    LET g == Gcd(1200, rate)
        rn == rate \div g
        rd == 1200 \div g
    IN Pow(rd + rn, n) * rd * c >= Pow(rd, n) * (rd * c + remaining * rn)

CompoundMonths(remaining, c, rate) ==
    {n \in 1..MaxCompoundMonths :
        /\ CompoundReached(remaining, c, rate, n)
        /\ \A m \in 1..(n - 1) : ~CompoundReached(remaining, c, rate, m)}

CeilAsFloor(a, b) == a \div b

\* Math.ceil(a / b) for a >= 0, b > 0
Ceil(a, b) == (a + b - 1) \div b

\* calculateTimeToGoal(remaining, monthlyContribution, rate / 100 / 12), remaining > 0
calculateTimeToGoal(remaining, contribution, rate) ==
    IF contribution.kind = "NaN" THEN NaN
    ELSE IF contribution.value <= 0 THEN Infinity
    ELSE IF rate = 0 THEN Number(Ceil(remaining, contribution.value))
    ELSE Number(CHOOSE n \in CompoundMonths(remaining, contribution.value, rate) : TRUE)

\* the inputs whose compound result lies within MaxCompoundMonths
WithinMonths(remaining, contribution, rate) ==
    \/ remaining <= 0 \/ rate = 0 \/ contribution.kind = "NaN" \/ contribution.value <= 0
    \/ CompoundMonths(remaining, contribution.value, rate) # {}

\* GET /api/forecasts/savings-goals
SavingsGoals(q) ==
    LET given == Field(q, "monthlyContribution", 0)
        fallback == given = 0
        contribution == IF fallback THEN averageMonthlySavings(txs, now) ELSE Number(given)
        remaining == q.goalAmount - q.currentAmount
        answer ==
            IF given < 0 THEN [res |-> "VALIDATION_FAILED", timeToGoal |-> NoTimeToGoal]
            ELSE IF fallback /\ contribution.kind = "number" /\ contribution.value <= 0
            THEN [res |-> "NO_SAVINGS_RATE", timeToGoal |-> NoTimeToGoal]
            \* goal already achieved: scenarios has no `current`, and
            \* generateSavingsRecommendations reads scenarios.current.timeToGoal
            ELSE IF remaining <= 0 THEN [res |-> "INTERNAL_SERVER_ERROR", timeToGoal |-> NoTimeToGoal]
            ELSE [res |-> "ok", timeToGoal |-> calculateTimeToGoal(remaining, contribution, q.interestRate)]
    IN /\ Served
       /\ WithinMonths(remaining, contribution, q.interestRate)
       /\ last' = Resp("savingsGoals", answer.res, NoId, NoId, "none")
                   @@ [query |-> q, contribution |-> contribution, timeToGoal |-> answer.timeToGoal]
       /\ UNCHANGED <<budgets, txs, counted, now, req>>

\* nI income transactions of this month, nE expense transactions of last month,
\* nO transactions older than a year
InitForecast ==
    \E nI \in 0..MaxHistory, nE \in 0..MaxHistory, nO \in 0..MaxOld :
        LET doc(type, date) == NewTransaction([type |-> type, amount |-> HistoryAmount,
                                              category |-> "food", date |-> date], 0)
        IN /\ txs = [i \in 1..(nI + nE + nO) |->
                        IF i <= nI THEN doc("income", 0)
                        ELSE IF i <= nI + nE THEN doc("expense", -DaysPerMonth - 10)
                        ELSE doc("expense", -DaysPerYear - 35)]
           /\ budgets = << >>
           /\ counted = [b \in BudgetIds |-> NoneCounted]
           /\ now = 0
           /\ last = Resp("none", "ok", NoId, NoId, "none")
           /\ nreq = 0
           /\ req = [p \in Procs |-> Idle]

NextForecast ==
    \/ \E method \in Methods, months \in Horizons : IncomeExpenseForecast(method, months)
    \/ \E q \in SavingsQueries : SavingsGoals(q)

SpecForecast == InitForecast /\ [][NextForecast]_vars

----------------------------------------------------------------------------
(* The aggregator and the forecast strategies as functions of their         *)
(* arguments: txs is the transaction array handed to the aggregator, in any *)
(* order, and now is today's date.                                          *)

MaxGroup == 2

\* 15 December of last year, 10 January, 1 February
GroupDates == {MakeDate(-1, 11, 15), MakeDate(0, 0, 10), MakeDate(0, 1, 1)}
GroupAmounts == [income |-> {1, 2}, expense |-> {1}]
GroupDocs ==
    {NewTransaction([type |-> type, amount |-> amount, category |-> "food", date |-> date], 0) :
        type \in {"income"}, amount \in GroupAmounts.income, date \in GroupDates}
    \cup
    {NewTransaction([type |-> type, amount |-> amount, category |-> "food", date |-> date], 0) :
        type \in {"expense"}, amount \in GroupAmounts.expense, date \in GroupDates}

\* 15, 29, 30 and 31 January, 31 May, 15 December
Todays == {MakeDate(0, 0, 15), MakeDate(0, 0, 29), MakeDate(0, 0, 30), MakeDate(0, 0, 31),
           MakeDate(0, 4, 31), MakeDate(0, 11, 15)}

\* groupTransactionsByMonth(transactions)
GroupByMonth ==
    /\ last' = Resp("group", "ok", NoId, NoId, "none")
                @@ [monthlyData |-> groupTransactionsByMonth(txs)]
    /\ UNCHANGED <<budgets, txs, counted, now, nreq, req>>

\* calculateSeasonalFactors(monthlyData)
SeasonalFactors ==
    /\ last' = Resp("factors", "ok", NoId, NoId, "none")
                @@ [monthlyData |-> groupTransactionsByMonth(txs),
                    seasonalFactors |-> calculateSeasonalFactors(groupTransactionsByMonth(txs))]
    /\ UNCHANGED <<budgets, txs, counted, now, nreq, req>>

\* the strategy switch over the buckets of a history that has transactions
Strategy(method, months) ==
    LET run == GenerateForecast(method, groupTransactionsByMonth(txs), months, now)
    IN /\ txs # << >>
       /\ last' = Resp("strategy", run.res, NoId, NoId, "none")
                   @@ [method |-> method, months |-> months,
                       monthlyData |-> groupTransactionsByMonth(txs), forecast |-> run.forecast]
       /\ UNCHANGED <<budgets, txs, counted, now, nreq, req>>

InitStrategy ==
    /\ \E n \in 0..MaxGroup : txs \in [1..n -> GroupDocs]
    /\ now \in Todays
    /\ budgets = << >>
    /\ counted = [b \in BudgetIds |-> NoneCounted]
    /\ last = Resp("none", "ok", NoId, NoId, "none")
    /\ nreq = 0
    /\ req = [p \in Procs |-> Idle]

NextStrategy ==
    \/ GroupByMonth
    \/ SeasonalFactors
    \/ \E method \in Methods, months \in Horizons : Strategy(method, months)

SpecStrategy == InitStrategy /\ [][NextStrategy]_vars

----------------------------------------------------------------------------
(* Renewal interleaved with renewal and with transaction creation: one      *)
(* weekly budget whose week (days 0 to 6) is over, last saved during the    *)
(* week or after it. A client sends its next request when the previous one  *)
(* is answered.                                                             *)

RenewConcDay == 7
RenewConcSpent == {0, 50}
RenewConcBody ==
    [amount |-> 200, period |-> "weekly", startDate |-> 0, endDate |-> 6,
     categories |-> <<"food">>, status |-> "absent", autoRenewEnabled |-> TRUE]
RenewConcTxBodies == {body \in ConcTxBodies : body.category = "food"}

\* save() of a renewed document: $set of the modified paths, $push of the
\* snapshots pushed onto history since it was loaded
SaveRenewed(stored, loaded, doc) ==
    [SaveModified(stored, loaded, doc) EXCEPT
        !.history = stored.history \o SubSeq(doc.history, Len(loaded.history) + 1, Len(doc.history))]

\* POST /api/budgets/:id/renew arrives
crStart(p, id) ==
    /\ req[p].pc \in {"idle", "done"}
    /\ Served
    /\ req' = [req EXCEPT ![p] = [pc |-> "crFindOne", bid |-> id]]
    /\ UNCHANGED <<budgets, txs, counted, now, last>>

\* await Budget.findOne(...), then the status check
crFindOne(p) ==
    LET r == req[p]
        b == budgets[r.bid]
    IN /\ r.pc = "crFindOne"
       /\ r.bid \in DOMAIN budgets
       /\ RenewRefusal(b) = "ok" => Len(b.history) < MaxRenew
       /\ req' = [req EXCEPT ![p] = IF RenewRefusal(b) # "ok" THEN Done("renew", RenewRefusal(b))
                                    ELSE [pc |-> "crSave", bid |-> r.bid, loaded |-> b]]
       /\ UNCHANGED <<budgets, txs, counted, now, last, nreq>>

\* await budget.renewForNextPeriod(): the reset and its save()
crSave(p) ==
    LET r == req[p]
    IN /\ r.pc = "crSave"
       /\ budgets' = [budgets EXCEPT ![r.bid] = SaveRenewed(@, r.loaded, PreSave(RenewDoc(r.loaded), now))]
       /\ counted' = [counted EXCEPT ![r.bid] = NoneCounted]
       /\ req' = [req EXCEPT ![p] = Done("renew", "ok")]
       /\ UNCHANGED <<txs, now, last, nreq>>

InitRenewConc ==
    \E s \in RenewConcSpent, t \in {0, RenewConcDay} :
        LET b0 == NewBudget(RenewConcBody)
            b1 == IF s > 0 THEN AddTransactionDoc(b0, s, 0) ELSE b0
            tx == [NewTransaction([type |-> "expense", amount |-> s, category |-> "food", date |-> 0], 0)
                       EXCEPT !.budgetId = 1]
        IN /\ budgets = <<PreSave(b1, t)>>
           /\ txs = IF s > 0 THEN <<tx>> ELSE << >>
           /\ counted = [b \in BudgetIds |-> [u \in TxIds |-> IF b = 1 /\ u = 1 THEN s ELSE 0]]
           /\ now = RenewConcDay
           /\ last = Resp("none", "ok", NoId, NoId, "none")
           /\ nreq = 0
           /\ req = [p \in Procs |-> Idle]

NextRenewConc ==
    \E p \in Procs :
        \/ \E body \in RenewConcTxBodies : ctStart(p, body)
        \/ ctIsDuplicate(p)
        \/ ctSave(p)
        \/ ctFindBudget(p)
        \/ ctAddTransaction(p)
        \/ ctSetBudgetId(p)
        \/ \E id \in DOMAIN budgets : crStart(p, id)
        \/ crFindOne(p)
        \/ crSave(p)

SpecRenewConc == InitRenewConc /\ [][NextRenewConc]_vars

----------------------------------------------------------------------------
(* Renewal asked for again and again: one budget of days 0 to 1, charged    *)
(* below, at or above its amount, while the clock advances and the budget   *)
(* is saved by PUT; the client repeats POST /:id/renew as long as it likes. *)

RenewLiveSpent == {0, 50, 200, 250}

RenewLiveBodies ==
    {[amount |-> a, period |-> "weekly", startDate |-> 0, endDate |-> 1,
      categories |-> <<"food">>, status |-> "absent", autoRenewEnabled |-> e] :
        a \in RenewAmounts, e \in BOOLEAN}

\* POST /api/budgets/:id/renew, any number of times
RenewAgain(id) ==
    LET b == budgets[id]
    IN /\ id \in DOMAIN budgets
       /\ IF RenewRefusal(b) # "ok"
          THEN /\ last' = Resp("renew", RenewRefusal(b), id, NoId, b.status)
               /\ UNCHANGED <<budgets, counted>>
          ELSE /\ Len(b.history) < MaxRenew
               /\ budgets' = [budgets EXCEPT ![id] = PreSave(RenewDoc(b), now)]
               /\ counted' = [counted EXCEPT ![id] = NoneCounted]
               /\ last' = Resp("renew", "ok", id, NoId, b.status)
       /\ UNCHANGED <<txs, now, nreq, req>>

InitRenewLive ==
    \E body \in RenewLiveBodies, s \in RenewLiveSpent :
        LET b0 == NewBudget(body)
            b1 == IF s > 0 THEN AddTransactionDoc(b0, s, 0) ELSE b0
            tx == [NewTransaction([type |-> "expense", amount |-> s, category |-> "food", date |-> 0], 0)
                       EXCEPT !.budgetId = 1]
        IN /\ budgets = <<PreSave(b1, 0)>>
           /\ txs = IF s > 0 THEN <<tx>> ELSE << >>
           /\ counted = [b \in BudgetIds |-> [u \in TxIds |-> IF b = 1 /\ u = 1 THEN s ELSE 0]]
           /\ now = 0
           /\ last = Resp("none", "ok", NoId, NoId, "none")
           /\ nreq = 0
           /\ req = [p \in Procs |-> Idle]

NextRenewLive ==
    \/ \E id \in DOMAIN budgets : RenewAgain(id)
    \/ \E id \in DOMAIN budgets : UpdateBudget(id, BodyOf(budgets[id]))
    \/ Tick

\* the client's renewal request is handled whenever it would change anything
SpecRenewLive ==
    InitRenewLive /\ [][NextRenewLive]_vars /\ WF_vars(\E id \in DOMAIN budgets : RenewAgain(id))

----------------------------------------------------------------------------
(* GET /api/categories (routes/categories.js) over the category collection, *)
(* which last carries from the start. The lookup resolves, rejects or       *)
(* throws, as the database decides.                                         *)

Undefined == "<undefined>"

\* the documents a collection can hold: sortOrder is the position in the type
CategoryDocs ==
    { [name |-> "rent", userId |-> "u1", isSystem |-> FALSE, isDefault |-> FALSE, type |-> "expense", isActive |-> TRUE, sortOrder |-> 2],
      [name |-> "salary", userId |-> "u1", isSystem |-> FALSE, isDefault |-> FALSE, type |-> "income", isActive |-> TRUE, sortOrder |-> 1],
      [name |-> "old", userId |-> "u1", isSystem |-> FALSE, isDefault |-> FALSE, type |-> "expense", isActive |-> FALSE, sortOrder |-> 3],
      [name |-> "food", userId |-> "system", isSystem |-> TRUE, isDefault |-> TRUE, type |-> "expense", isActive |-> TRUE, sortOrder |-> 1],
      [name |-> "gift", userId |-> "u2", isSystem |-> FALSE, isDefault |-> FALSE, type |-> "income", isActive |-> TRUE, sortOrder |-> 2] }

\* req.query of GET /api/categories
CategoryQueries ==
    {[other |-> "value"]} \cup [type : {"", "expense", "income", "invalid-type"}]

LookupOutcomes == {"resolved", "rejected", "thrown"}

\* sort({ type: 1, sortOrder: 1, name: 1 }) of a set of documents
RECURSIVE SortCategories(_)
SortCategories(S) ==
    IF S = {} THEN << >>
    ELSE LET before(c, d) == \/ c.type = "expense" /\ d.type = "income"
                             \/ c.type = d.type /\ c.sortOrder < d.sortOrder
             first == CHOOSE c \in S : \A d \in S \ {c} : before(c, d)
         IN <<first>> \o SortCategories(S \ {first})

\* statics.getUserCategories(userId, type)
getUserCategories(collection, userId, type) ==
    SortCategories({c \in collection :
        /\ (c.userId = userId \/ (c.isSystem /\ c.isDefault))
        /\ c.isActive
        /\ (type \notin {Undefined, ""} => c.type = type)})

\* the response to an AppError(message, statusCode, errorCode)
ErrorResponse(message, statusCode, errorCode) ==
    [res |-> errorCode, status |-> statusCode, message |-> message, data |-> << >>]

CatchRejectionOnly(outcome, categories) ==
    CASE outcome = "resolved" -> [res |-> "ok", status |-> 200, message |-> "Categories retrieved successfully", data |-> categories]
      [] outcome = "rejected" -> ErrorResponse("Failed to fetch categories", 500, "CATEGORIES_FETCH_ERROR")
      [] OTHER -> ErrorResponse("Internal server error", 500, "INTERNAL_SERVER_ERROR")

\* the try / catch around the awaited lookup
TryLookup(outcome, categories) ==
    IF outcome = "resolved"
    THEN [res |-> "ok", status |-> 200, message |-> "Categories retrieved successfully", data |-> categories]
    ELSE ErrorResponse("Failed to fetch categories", 500, "CATEGORIES_FETCH_ERROR")

\* GET /api/categories
GetCategories(userId, query, outcome) ==
    LET type == Field(query, "type", Undefined)
        call == [userId |-> userId, type |-> type]
        categories == getUserCategories(last.collection, userId, type)
        answer == TryLookup(outcome, categories)
    IN /\ Served
       /\ last' = Resp("categories", answer.res, NoId, NoId, "none")
                   @@ [collection |-> last.collection, user |-> userId, query |-> query,
                       calls |-> <<call>>, lookup |-> outcome,
                       returned |-> IF outcome = "resolved" THEN categories ELSE << >>,
                       status |-> answer.status, message |-> answer.message, data |-> answer.data]
       /\ UNCHANGED <<budgets, txs, counted, now, req>>

InitCategories ==
    /\ \E collection \in SUBSET CategoryDocs :
          last = Resp("none", "ok", NoId, NoId, "none") @@ [collection |-> collection]
    /\ budgets = << >>
    /\ txs = << >>
    /\ counted = [b \in BudgetIds |-> NoneCounted]
    /\ now = 0
    /\ nreq = 0
    /\ req = [p \in Procs |-> Idle]

NextCategories ==
    \E userId \in Users, query \in CategoryQueries, outcome \in LookupOutcomes :
        GetCategories(userId, query, outcome)

SpecCategories == InitCategories /\ [][NextCategories]_vars

----------------------------------------------------------------------------
(* calculateOverallBudgetHealth (routes/forecasts.js) as a function of the  *)
(* list of projections, which last carries from the start.                  *)

MaxProjections == 4

ProjectedStatuses == {"over_budget", "at_risk", "on_track", "under_budget"}

\* projections.filter(p => p.projected.status === status).length
CountStatus(projections, status) ==
    Len(SelectSeq(projections, LAMBDA p : p.projected.status = status))

Unclamped(overallScore) == overallScore

\* Math.max(0, Math.min(100, overallScore))
Clamp(overallScore) == Max(0, Min(100, overallScore))

healthLevel(healthScore) ==
    IF healthScore >= 80 THEN "excellent"
    ELSE IF healthScore >= 60 THEN "good"
    ELSE IF healthScore >= 40 THEN "fair"
    ELSE "poor"

calculateOverallBudgetHealth(projections) ==
    LET overBudget == CountStatus(projections, "over_budget")
        atRisk == CountStatus(projections, "at_risk")
        onTrack == CountStatus(projections, "on_track")
        underBudget == CountStatus(projections, "under_budget")
        overallScore == 100 - (overBudget * 30) - (atRisk * 15) + (underBudget * 5)
        healthScore == Clamp(overallScore)
    IN [score |-> healthScore,
        level |-> healthLevel(healthScore),
        breakdown |-> [total |-> Len(projections), overBudget |-> overBudget, atRisk |-> atRisk,
                       onTrack |-> onTrack, underBudget |-> underBudget]]

OverallHealth ==
    /\ last.op = "none"
    /\ last' = Resp("health", "ok", NoId, NoId, "none")
                @@ [projections |-> last.projections,
                    overallHealth |-> calculateOverallBudgetHealth(last.projections)]
    /\ UNCHANGED <<budgets, txs, counted, now, nreq, req>>

InitHealth ==
    /\ \E n \in 0..MaxProjections :
          \E statuses \in [1..n -> ProjectedStatuses] :
              last = Resp("none", "ok", NoId, NoId, "none")
                     @@ [projections |-> [i \in 1..n |-> [projected |-> [status |-> statuses[i]]]]]
    /\ budgets = << >>
    /\ txs = << >>
    /\ counted = [b \in BudgetIds |-> NoneCounted]
    /\ now = 0
    /\ nreq = 0
    /\ req = [p \in Procs |-> Idle]

NextHealth == OverallHealth

SpecHealth == InitHealth /\ [][NextHealth]_vars

----------------------------------------------------------------------------
(* Properties *)

\* a step of Spec that handles a request of kind op
Handles(op) == nreq' = nreq + 1 /\ last'.op = op

AllDone == \A p \in Procs : req[p].pc = "done"

TxOfBudget(b) == {t \in Live(txs) : txs[t].budgetId = b}

ShareCategory(b1, b2) == \E i \in 1..Len(b1.categories) : InList(b1.categories[i], b2.categories)

\* C1: once N concurrent create-transaction requests of one amount A on one budget
\* have all completed, that budget's spent has grown by N x A and its
\* transactionCount by N (budgets start the run with spent 0 and count 0).
C1_NoLostUpdate ==
    (AllDone /\ \A p \in Procs : req[p].kind = "createTransaction")
    => \A b \in DOMAIN budgets :
         LET T == TxOfBudget(b)
         IN (\A t, u \in T : txs[t].amount = txs[u].amount)
            => /\ budgets[b].spent = SumOver(T, [t \in T |-> txs[t].amount])
               /\ budgets[b].transactionCount = Cardinality(T)

\* C2: a stored budget that is not paused is exceeded if and only if
\* spent / amount x 100 >= 100, that is spent >= amount.
C2_ExceededIffSpent ==
    \A b \in DOMAIN budgets :
        budgets[b].status # "paused"
        => (budgets[b].status = "exceeded" <=> budgets[b].spent >= budgets[b].amount)

\* C3: a budget handed to save() with status paused, its end date not passed, is
\* stored with status paused, whatever its utilization.
C3_PausedKept ==
    [][(Handles("updateBudget") /\ last'.seen = "paused" /\ now <= budgets'[last'.bid].endDate)
       => budgets'[last'.bid].status = "paused"]_vars

\* C4: a renew request on a budget whose status is not completed or whose
\* autoRenew is disabled is refused and leaves every budget unchanged.
C4_RefusedRenewalIsNoOp ==
    [][(Handles("renew") /\ (budgets[last'.bid].status # "completed" \/ ~budgets[last'.bid].autoRenewEnabled))
       => (last'.res \in {"BUDGET_NOT_COMPLETED", "AUTO_RENEWAL_DISABLED"} /\ budgets' = budgets)]_vars

\* a renewal was refused because autoRenew is disabled on a completed budget
C4_Witness ==
    /\ last.op = "renew"
    /\ last.res = "AUTO_RENEWAL_DISABLED"
    /\ budgets[last.bid].status = "completed"

\* C5: a request that loads a budget after its end date has passed (GET /:id, the
\* renew precondition) observes status completed or exceeded.
C5_StatusDerivedOnLoad ==
    [][((Handles("getBudget") \/ Handles("renew")) /\ now > budgets[last'.bid].endDate)
       => last'.seen \in {"completed", "exceeded"}]_vars

\* C6: after a save by the budget routes, status is completed if and only if the
\* clock is past endDate and utilization is below 100.
C6_CompletedIffEnded ==
    [][((Handles("createBudget") \/ Handles("updateBudget") \/ Handles("renew")) /\ last'.res = "ok")
       => LET b == budgets'[last'.bid]
          IN b.status = "completed" <=> (now > b.endDate /\ utilizationPercentage(b) < 100)]_vars

\* C7: when an expense transaction is created (single create, bulk create, bank
\* sync), every budget whose categories hold its category and whose range holds
\* its date has spent raised by the amount, transactionCount by 1,
\* lastTransactionDate set, and remaining = max(0, amount - spent + rolloverAmount).
C7_MatchingBudgetCharged ==
    [][((Handles("createTransaction") \/ Handles("bulkCreate") \/ Handles("syncTransaction"))
        /\ last'.res = "ok" /\ txs'[last'.tid].type = "expense")
       => \A b \in DOMAIN budgets :
            MatchesBudget(budgets[b], txs'[last'.tid])
            => /\ budgets'[b].spent = budgets[b].spent + txs'[last'.tid].amount
               /\ budgets'[b].transactionCount = budgets[b].transactionCount + 1
               /\ budgets'[b].lastTransactionDate # NoDate
               /\ budgets'[b].remaining = remainingAmount(budgets'[b])]_vars

\* C8: after an expense transaction held by a budget is deleted or edited, its
\* old amount has left that budget's spent and transactionCount, and its new
\* amount is in the spent of the budget it is now attached to, which matches it;
\* it is attached to a budget whenever one matches it.
C8_EditReattributes ==
    [][((Handles("updateTransaction") \/ Handles("deleteTransaction")) /\ last'.res = "ok"
        /\ txs[last'.tid].type = "expense" /\ txs[last'.tid].budgetId # NoId)
       => LET t == last'.tid
              from == txs[t].budgetId
              to == txs'[t].budgetId
          IN /\ \A b \in DOMAIN budgets :
                  /\ budgets'[b].spent = budgets[b].spent
                        - (IF b = from THEN txs[t].amount ELSE 0)
                        + (IF b = to THEN txs'[t].amount ELSE 0)
                  /\ budgets'[b].transactionCount = budgets[b].transactionCount
                        - (IF b = from THEN 1 ELSE 0)
                        + (IF b = to THEN 1 ELSE 0)
             /\ to # NoId => MatchesBudget(budgets'[to], txs'[t])
             /\ (\E b \in DOMAIN budgets : MatchesBudget(budgets'[b], txs'[t])) => to # NoId]_vars

\* C9: the amount of a transaction is held in the spent of at most one budget.
C9_CountedOnce ==
    \A t \in TxIds : Cardinality({b \in BudgetIds : counted[b][t] > 0}) <= 1

\* C10: no two active or paused budgets share a category and have overlapping
\* date ranges.
C10_NoOverlappingBudgets ==
    \A b1, b2 \in DOMAIN budgets :
        (/\ b1 # b2
         /\ budgets[b1].status \in {"active", "paused"}
         /\ budgets[b2].status \in {"active", "paused"}
         /\ ShareCategory(budgets[b1], budgets[b2]))
        => (budgets[b1].startDate > budgets[b2].endDate \/ budgets[b1].endDate < budgets[b2].startDate)

\* a step of a renew request that renewed the budget
Renewed(id) == Handles("renew") /\ last'.res = "ok" /\ last'.bid = id

\* the rollover the closing period b carries: its unused amount, capped at the
\* limit when one is set, none when rollover is off or the period was overspent
ClosingRollover(b) ==
    IF ~(b.rolloverEnabled /\ b.carryOverUnused) \/ b.spent >= b.amount THEN 0
    ELSE IF b.maxRolloverAmount # NoAmount THEN Min(b.amount - b.spent, b.maxRolloverAmount)
    ELSE b.amount - b.spent

\* C11: after a successful renewal currentPeriod is {spent 0, transactionCount 0,
\* remaining amount + rollover, rolloverAmount rollover}, rollover being the closing
\* period's unused amount capped at maxRolloverAmount when set (0 included), and 0
\* when rollover is disabled or the closing period was exceeded.
C11_RenewalResetsPeriod ==
    [][\A id \in DOMAIN budgets :
          Renewed(id)
          => /\ budgets'[id].spent = 0
             /\ budgets'[id].transactionCount = 0
             /\ budgets'[id].rolloverAmount = ClosingRollover(budgets[id])
             /\ budgets'[id].remaining = budgets'[id].amount + ClosingRollover(budgets[id])]_vars

\* C12: a successful renewal moves startDate and endDate forward by one period
\* length each.
C12_RenewalAdvancesDates ==
    [][\A id \in DOMAIN budgets :
          Renewed(id)
          => /\ budgets'[id].startDate = budgets[id].startDate + getPeriodInDays(budgets[id].period)
             /\ budgets'[id].endDate = budgets[id].endDate + getPeriodInDays(budgets[id].period)]_vars

\* the snapshot of the closing period b
ClosingSnapshot(b) ==
    [ budgetAmount |-> b.amount, actualSpent |-> b.spent, variance |-> b.amount - b.spent,
      variancePercentage |-> ((b.amount - b.spent) * 100) \div b.amount,
      transactionCount |-> b.transactionCount, startDate |-> b.startDate, endDate |-> b.endDate ]

\* C13: history is append-only: a step leaves a budget's history as it was, or is
\* a successful renewal that appends the snapshot of the closing period.
C13_HistoryAppendOnly ==
    [][\A id \in DOMAIN budgets :
          \/ budgets'[id].history = budgets[id].history
          \/ /\ Renewed(id)
             /\ budgets'[id].history = Append(budgets[id].history, ClosingSnapshot(budgets[id]))]_vars

\* C14: every stored budget has endDate strictly after startDate, after every
\* create, update and renewal.
C14_EndAfterStart ==
    \A id \in DOMAIN budgets : budgets[id].endDate > budgets[id].startDate

\* C15: a budget's userId never changes, and a request made by a user changes no
\* field of a budget whose userId is another user.
C15_BudgetOwnedByOneUser ==
    [][\A id \in DOMAIN budgets :
          /\ budgets'[id].userId = budgets[id].userId
          /\ (nreq' = nreq + 1 /\ budgets[id].userId # last'.user) => budgets'[id] = budgets[id]]_vars

\* the alert level of budget b on its utilization spent / amount x 100
AlertLevel(b) ==
    IF b.criticalEnabled /\ b.spent * 100 >= b.criticalPercentage * b.amount THEN "critical"
    ELSE IF b.warningEnabled /\ b.spent * 100 >= b.warningPercentage * b.amount THEN "warning"
    ELSE "none"

\* C16: needsAlert answers critical when the critical threshold is enabled and
\* reached, otherwise warning when the warning threshold is enabled and reached,
\* otherwise none; it is none when spent / amount x 100 is below every enabled threshold.
C16_NeedsAlertLevel ==
    last.op = "needsAlert" => last.res = AlertLevel(budgets[last.bid])

\* the completed transactions of the user, of any date
TotalCount == Cardinality(Live(txs))

\* the transactions the forecast is made from: those of the last 12 months
HistoryCount == Cardinality({t \in Live(txs) : now - txs[t].date <= DaysPerYear})

ValidSavingsQuery(q) == Field(q, "monthlyContribution", 0) >= 0

\* C18: a savings-goal request with currentAmount >= goalAmount succeeds and
\* reports a time to goal of 0 months, for every contribution and interest rate.
C18_GoalAlreadyMet ==
    (/\ last.op = "savingsGoals"
     /\ ValidSavingsQuery(last.query)
     /\ last.query.currentAmount >= last.query.goalAmount)
    => (last.res = "ok" /\ last.timeToGoal = Number(0))

\* the monthly contribution of the request is zero or negative: given below zero,
\* or absent or zero with a history whose mean monthly net is not positive
NoContribution(q) ==
    \/ ~ValidSavingsQuery(q)
    \/ /\ Field(q, "monthlyContribution", 0) = 0
       /\ averageMonthlySavings(txs, now) = Number(0)

\* C19: with a zero or negative monthly contribution and the goal not yet met, the
\* request succeeds and reports an infinite time to goal.
C19_UnreachableIsData ==
    (/\ last.op = "savingsGoals"
     /\ last.query.currentAmount < last.query.goalAmount
     /\ NoContribution(last.query))
    => (last.res = "ok" /\ last.timeToGoal = Infinity)

\* C20: at interest rate 0, with contribution c > 0 and remaining > 0, the months
\* reported are the least n with n x c >= remaining.
C20_ZeroRateCeiling ==
    (/\ last.op = "savingsGoals"
     /\ last.query.interestRate = 0
     /\ last.query.currentAmount < last.query.goalAmount
     /\ last.contribution.kind = "number"
     /\ last.contribution.value > 0
     /\ ValidSavingsQuery(last.query))
    => LET remaining == last.query.goalAmount - last.query.currentAmount
           c == last.contribution.value
           n == last.timeToGoal.value
       IN /\ last.res = "ok"
          /\ last.timeToGoal.kind = "number"
          /\ n * c >= remaining
          /\ (n - 1) * c < remaining

\* remaining 12 at contribution 5 and rate 0: 3 months, 12 / 5 rounded up
C20_Witness ==
    /\ last.op = "savingsGoals"
    /\ last.res = "ok"
    /\ last.query.interestRate = 0
    /\ last.query.goalAmount - last.query.currentAmount = 12
    /\ last.contribution = Number(5)
    /\ last.timeToGoal = Number(3)

\* the rearrangements of a sequence
Rearranged(seq) ==
    {[i \in DOMAIN seq |-> seq[p[i]]] :
        p \in {q \in [DOMAIN seq -> DOMAIN seq] : \A i, j \in DOMAIN seq : q[i] = q[j] => i = j}}

\* the sum of the amounts of the transactions of month m that are of type type
SumOfMonth(m, type) ==
    LET S == {i \in DOMAIN txs : MonthOf(txs[i].date) = m /\ txs[i].type = type}
    IN SumOver(S, [i \in S |-> txs[i].amount])

FlatAverage(values) == Round2(Frac(SumSeq(values), Len(values)))

\* the buckets of the transactions the forecast route finds
HistoryBuckets == groupTransactionsByMonth(Docs(txs, FindSince(txs, now - DaysPerYear)))

\* C21: with the simple strategy, or no method, and 10 or more transactions the
\* forecast succeeds and every forecast month carries the averages of income and
\* of expenses over the trailing 6 buckets (all buckets when fewer).
C21_SimpleFlatAverage ==
    (/\ last.op = "forecast"
     /\ last.method \in {"simple", "absent"}
     /\ HistoryCount >= 10)
    => /\ last.res = "ok"
       /\ Len(last.forecast) = last.months
       /\ \A i \in DOMAIN last.forecast :
             /\ last.forecast[i].income = FlatAverage(Incomes(RecentMonths(HistoryBuckets)))
             /\ last.forecast[i].expenses = FlatAverage(AllExpenses(RecentMonths(HistoryBuckets)))

\* the buckets of calendar month m (0 = January)
BucketsOfMonth(monthlyData, m) == SelectSeq(monthlyData, LAMBDA data : data.month % 12 = m)

\* (average of the buckets of calendar month m) / (average of all buckets)
FactorOfMonth(values, ofMonth) ==
    Over(Frac(SumSeq(ofMonth), Len(ofMonth)), Frac(SumSeq(values), Len(values)))

\* C22: the seasonal factor of a calendar month that has buckets is (the average of
\* its buckets) / (the average of all buckets), for income and for expenses; when
\* every bucket has the same value every such factor is 1.
C22_SeasonalFactorOfMonth ==
    last.op = "factors"
    => LET monthlyData == last.monthlyData
       IN \A m \in 0..11 :
            BucketsOfMonth(monthlyData, m) # << >>
            => /\ SumSeq(Incomes(monthlyData)) > 0
                  => last.seasonalFactors.income[m]
                       = FactorOfMonth(Incomes(monthlyData), Incomes(BucketsOfMonth(monthlyData, m)))
               /\ SumSeq(AllExpenses(monthlyData)) > 0
                  => last.seasonalFactors.expenses[m]
                       = FactorOfMonth(AllExpenses(monthlyData), AllExpenses(BucketsOfMonth(monthlyData, m)))

\* the overall average of a column of the buckets
OverallAverage(values) == Frac(SumSeq(values), Len(values))

\* C23: every seasonal forecast point's income and expenses are the overall average
\* times the seasonal factor reported in the point, and for a calendar month with
\* no history the reported factor is 1.
C23_SeasonalPointUsesReportedFactor ==
    (last.op = "strategy" /\ last.method = "seasonal")
    => /\ last.res = "ok"
       /\ \A i \in DOMAIN last.forecast :
             LET point == last.forecast[i]
                 monthlyData == last.monthlyData
             IN /\ point.income
                     = Round2(Times(OverallAverage(Incomes(monthlyData)), point.seasonalFactor.income))
                /\ point.expenses
                     = Round2(Times(OverallAverage(AllExpenses(monthlyData)), point.seasonalFactor.expenses))
                /\ BucketsOfMonth(monthlyData, point.month % 12) = << >>
                   => (point.seasonalFactor.income = One /\ point.seasonalFactor.expenses = One)

\* C24: a forecast for horizon N has exactly N points, labelled with the N calendar
\* months that follow the month of the current date, in order, each once.
C24_ConsecutiveMonths ==
    (last.op = "strategy" /\ last.method = "seasonal")
    => /\ last.res = "ok"
       /\ Len(last.forecast) = last.months
       /\ \A i \in DOMAIN last.forecast : last.forecast[i].month = MonthOf(now) + i

\* the number of projections of a status
NumberOf(status) == Cardinality({i \in DOMAIN last.projections : last.projections[i].projected.status = status})

\* C26: the health score of a list of projections is min(100, max(0, 100 - 30 x
\* over_budget - 15 x at_risk + 5 x under_budget)), within 0..100, and the level is
\* excellent from 80, good from 60, fair from 40 and poor below.
C26_HealthScore ==
    last.op = "health"
    => LET raw == 100 - 30 * NumberOf("over_budget") - 15 * NumberOf("at_risk") + 5 * NumberOf("under_budget")
           score == last.overallHealth.score
           level == last.overallHealth.level
       IN /\ score = (IF raw > 100 THEN 100 ELSE IF raw < 0 THEN 0 ELSE raw)
          /\ score \in 0..100
          /\ level = "excellent" <=> score >= 80
          /\ level = "good" <=> (score >= 60 /\ score < 80)
          /\ level = "fair" <=> (score >= 40 /\ score < 60)
          /\ level = "poor" <=> score < 40

\* 2 over budget, 1 at risk, 1 under budget: 30 and poor
C26_Witness ==
    /\ last.op = "health"
    /\ NumberOf("over_budget") = 2
    /\ NumberOf("at_risk") = 1
    /\ NumberOf("under_budget") = 1
    /\ last.overallHealth.score = 30
    /\ last.overallHealth.level = "poor"

\* C27: GET /api/categories calls the lookup once, with the user's id and the type
\* of the query as it came (absent and empty included); a lookup that resolves
\* gives a success carrying the returned list, one that rejects or throws gives
\* 500 'Failed to fetch categories' with code CATEGORIES_FETCH_ERROR.
C27_CategoriesLookup ==
    last.op = "categories"
    => /\ Len(last.calls) = 1
       /\ last.calls[1].userId = last.user
       /\ last.calls[1].type = (IF "type" \in DOMAIN last.query THEN last.query.type ELSE Undefined)
       /\ last.lookup = "resolved"
          => (last.res = "ok" /\ last.status = 200 /\ last.data = last.returned)
       /\ last.lookup \in {"rejected", "thrown"}
          => /\ last.res = "CATEGORIES_FETCH_ERROR"
             /\ last.status = 500
             /\ last.message = "Failed to fetch categories"

\* a lookup that throws, on a query with an empty type
C27_Witness ==
    /\ last.op = "categories"
    /\ last.lookup = "thrown"
    /\ "type" \in DOMAIN last.query
    /\ last.query.type = ""
    /\ last.calls = <<[userId |-> last.user, type |-> ""]>>
    /\ last.res = "CATEGORIES_FETCH_ERROR"

\* the stored expense transactions whose budgetId refers to budget b
ReferringTo(b) == {t \in Live(txs) : txs[t].type = "expense" /\ txs[t].budgetId = b}

\* C28: in every reachable state each budget's spent is the sum of the amounts of
\* the expense transactions whose budgetId refers to it, and transactionCount is
\* their number; neither is negative.
C28_SpentIsSumOfReferring ==
    \A b \in DOMAIN budgets :
        /\ budgets[b].spent = SumOver(ReferringTo(b), [t \in ReferringTo(b) |-> txs[t].amount])
        /\ budgets[b].transactionCount = Cardinality(ReferringTo(b))
        /\ budgets[b].spent >= 0
        /\ budgets[b].transactionCount >= 0

\* no request is being handled
Quiet == \A p \in Procs : req[p].pc \in {"idle", "done"}

\* the stored expense transactions dated within the current period of budget b
InCurrentPeriod(b) ==
    {t \in Live(txs) : /\ txs[t].type = "expense"
                       /\ txs[t].date >= budgets[b].startDate
                       /\ txs[t].date <= budgets[b].endDate}

\* C29: once renewals of a budget and transaction creations on it that ran at the
\* same time are all answered, every closed period is in history once, the period
\* has advanced once per snapshot, and spent holds nothing spent before the
\* current period.
C29_RenewalSerializable ==
    Quiet
    => \A b \in DOMAIN budgets :
         LET history == budgets[b].history
         IN /\ \A i, j \in DOMAIN history : history[i].startDate = history[j].startDate => i = j
            /\ budgets[b].startDate = RenewConcBody.startDate + Len(history) * getPeriodInDays(budgets[b].period)
            /\ budgets[b].spent <= SumOver(InCurrentPeriod(b), [t \in InCurrentPeriod(b) |-> txs[t].amount])

\* budget b has autoRenew enabled, its end date has passed and it was saved since:
\* its stored status is the one a save leaves now
SavedAfterEnd(b) ==
    /\ b \in DOMAIN budgets
    /\ budgets[b].autoRenewEnabled
    /\ now > budgets[b].endDate
    /\ budgets[b].status = PreSaveStatus(budgets[b], now)

\* C30: a budget with autoRenew enabled that was saved after its end date is
\* renewed once renewal is asked for, also when the period was overspent.
C30_EndedBudgetRenewed ==
    (SavedAfterEnd(1) /\ budgets[1].history = << >>) ~> (budgets[1].history # << >>)

====
